---- MODULE Spec2Model ----
(***************************************************************************)
(* A model of insv_dump: locating the INSV trailer, rebuilding the frame   *)
(* directory (backward scan / index table / gap fillers) and decoding the  *)
(* frames (single-frame parse, bulk parse, lookups).                       *)
(*                                                                         *)
(* Bytes are abstracted as follows.  A file is a video prefix, a sequence  *)
(* of laid-out segments (payload followed by its 6-byte trailing header)   *)
(* and the 72-byte trailer.  Positions, sizes and offsets are the real     *)
(* byte values.  A payload is kept as its length plus the two pieces of    *)
(* content the program reads from it: the index table of an INDEX payload  *)
(* and the length of the Gyro field inside an INFO payload.  A decoded     *)
(* record is kept as the slice of the payload it was decoded from.         *)
(***************************************************************************)
EXTENDS Integers, Sequences, FiniteSets, TLC

VARIABLES
    file,       \* the byte source handed to InsvMetadata.read
    pc,         \* "start" | "built" | "none" (no metadata) | "error" (read raised)
    header,     \* InsvMetadata.header (the footer), NoHeader before/without a model
    frames,     \* InsvMetadata.frames, front-to-back
    last        \* the last call made on the model: operation, argument, outcome

vars == <<file, pc, header, frames, last>>

----------------------------------------------------------------------------
(* Program constants *)

HEADER_SIZE == 72
FRAME_HEADER_SIZE == 6
INDEX_ENTRY_SIZE == 10
TS_SIZE == 8
SUPPORTED_VERSION == 3
INFO_PROTOBUF_VERSION == 1
GYRO_V1_SIZE == 56
GYRO_V2_SIZE == 20
EXPOSURE_SIZE == 16
TIMELAPSE_SIZE == 8
GPS_SIZE == 53
POS_SIZE == 44

\* FrameType codes (only the ones the model's files use are named)
RAW == -1
INDEX == 0
INFO == 1
THUMBNAIL == 2
GYRO == 3
EXPOSURE == 4
TIMELAPSE == 6
GPS == 7
MAGNETIC == 13
POS == 23
UNKNOWN_CODE == 99

\* FrameType member names, by code + 2
FrameTypeNames ==
    << "RAW", "INDEX", "INFO", "THUMBNAIL", "GYRO", "EXPOSURE", "THUMBNAIL_EXT",
       "TIMELAPSE", "GPS", "STAR_NUM", "THREE_A_IN_TIMESTAMP", "ANCHORS",
       "THREE_A_SIMULATION", "EXPOSURE_SECONDARY", "MAGNETIC", "EULER",
       "GYRO_SECONDARY", "SPEED", "TBOX", "EDITOR", "HEARTRATE",
       "FORWARD_DIRECTION", "UPVIEW", "SHELL_RECOGNITION_DATA", "POS",
       "TIMELAPSE_QUAT" >>

\* FrameType.from_code: the member with that value, "None" if there is none
FromCode(code) ==
    IF code + 2 \in 1..Len(FrameTypeNames) THEN FrameTypeNames[code + 2] ELSE "None"

DEFAULT_PARSED_TYPES == {"INDEX", "INFO", "GYRO", "EXPOSURE", "TIMELAPSE", "GPS"}

----------------------------------------------------------------------------
(* Small helpers *)

Min(a, b) == IF a < b THEN a ELSE b
Max(a, b) == IF a > b THEN a ELSE b

RECURSIVE Reverse(_)
Reverse(s) == IF s = <<>> THEN <<>> ELSE Append(Reverse(Tail(s)), Head(s))

\* A faulty sort: the frames left in table order
SortDescByPos_TableOrder(s) == s

\* list.sort(key = -frame_pos): stable insertion into descending position order
RECURSIVE SortDescByPos(_)
InsertDesc(f, sorted) ==
    LET keep == { k \in 1..Len(sorted) : sorted[k].pos >= f.pos }
        n == Cardinality(keep)
    IN SubSeq(sorted, 1, n) \o <<f>> \o SubSeq(sorted, n + 1, Len(sorted))
SortDescByPos(s) ==
    IF s = <<>> THEN <<>>
    ELSE InsertDesc(s[Len(s)], SortDescByPos(SubSeq(s, 1, Len(s) - 1)))

----------------------------------------------------------------------------
(* The byte source *)

\* Bytes taken by segments k..Len(segs): each is a payload plus its header
RECURSIVE SegBytes(_, _)
SegBytes(segs, k) ==
    IF k > Len(segs) THEN 0
    ELSE segs[k].len + FRAME_HEADER_SIZE + SegBytes(segs, k + 1)

\* File position just past segment k's trailing header / of its first payload byte
SegEnd(f, k) == f.fsize - HEADER_SIZE - SegBytes(f.segs, k + 1)
SegStart(f, k) == SegEnd(f, k) - f.segs[k].len - FRAME_HEADER_SIZE

\* The content the program reads from a payload: an INDEX payload's table of
\* 10-byte entries and the byte length of the Gyro field of an INFO payload
NoContent == [glen |-> 0, table |-> <<>>]

\* file.seek(pos); file.read(size): the length read stops at end of file, and
\* the content is that of the segment laid out there
PayloadAt(f, pos, size) ==
    LET at == { k \in 1..Len(f.segs) : SegStart(f, k) = pos /\ f.segs[k].len = size }
        plen == Min(size, Max(0, f.fsize - pos))
    IN IF at = {} THEN [plen |-> plen, content |-> NoContent]
       ELSE LET k == CHOOSE k \in at : TRUE
            IN [plen |-> plen,
                content |-> [glen |-> f.segs[k].glen, table |-> f.segs[k].table]]

\* The 6 bytes before cur_pos: a segment's trailing header when cur_pos is a
\* segment end, otherwise bytes of the video prefix (f.junk)
HeaderBytesAt(f, cur_pos) ==
    LET at == { k \in 1..Len(f.segs) : SegEnd(f, k) = cur_pos }
    IN IF at = {} THEN f.junk
       ELSE LET k == CHOOSE k \in at : TRUE
            IN [ver |-> f.segs[k].ver, code |-> f.segs[k].code, size |-> f.segs[k].len]

----------------------------------------------------------------------------
(* header.py *)

NoHeader == [version |-> 0, metadata_size |-> 0, metadata_pos |-> 0]

\* A faulty InsvHeaderRead: the version is checked before the signature
InsvHeaderRead_VersionFirst(f) ==
    IF f.fsize < HEADER_SIZE THEN [st |-> "none", header |-> NoHeader]
    ELSE IF f.version # SUPPORTED_VERSION THEN [st |-> "raise", header |-> NoHeader]
    ELSE IF ~f.sig THEN [st |-> "none", header |-> NoHeader]
    ELSE [st |-> "ok",
          header |-> [version |-> f.version, metadata_size |-> f.msize,
                      metadata_pos |-> f.fsize - f.msize]]

\* A faulty InsvHeaderRead: any version is accepted
InsvHeaderRead_AnyVersion(f) ==
    IF f.fsize < HEADER_SIZE \/ ~f.sig THEN [st |-> "none", header |-> NoHeader]
    ELSE [st |-> "ok",
          header |-> [version |-> f.version, metadata_size |-> f.msize,
                      metadata_pos |-> f.fsize - f.msize]]

\* InsvHeader.read: [st |-> "none" | "raise" | "ok", header]
InsvHeaderRead(f) ==
    IF f.fsize < HEADER_SIZE THEN [st |-> "none", header |-> NoHeader]
    ELSE IF ~f.sig THEN [st |-> "none", header |-> NoHeader]
    ELSE IF f.version # SUPPORTED_VERSION THEN [st |-> "raise", header |-> NoHeader]
    ELSE [st |-> "ok",
          header |-> [version |-> f.version, metadata_size |-> f.msize,
                      metadata_pos |-> f.fsize - f.msize]]

----------------------------------------------------------------------------
(* frames/frame_header.py, frames/frame.py *)

\* FrameHeader.__init__
FrameHeader(code, ver, size, pos) ==
    [code |-> code, type |-> FromCode(code), ver |-> ver, size |-> size, pos |-> pos]

\* FrameHeader.read_backward
ReadBackward(f, cur_pos) ==
    LET b == HeaderBytesAt(f, cur_pos)
    IN FrameHeader(b.code, b.ver, b.size, cur_pos - b.size - FRAME_HEADER_SIZE)

\* The empty-entry test of FrameHeader.from_index_entry
IsEmptyEntry(e) == e.code = 0 /\ e.ver = 0 /\ e.size = 0

\* FrameHeader.from_index_entry: <<>> for None, <<header>> otherwise
FromIndexEntry(e, metadata_pos) ==
    IF IsEmptyEntry(e) THEN <<>>
    ELSE << FrameHeader(e.code, e.ver, e.size, metadata_pos + e.off) >>

\* The subclass Frame.read instantiates for a frame type
ClassOf(type) ==
    CASE type = "INDEX" -> "IndexFrame"
      [] type = "INFO" -> "InfoFrame"
      [] type = "GYRO" -> "GyroFrame"
      [] type = "GPS" -> "GpsFrame"
      [] type = "EXPOSURE" -> "ExposureFrame"
      [] type = "TIMELAPSE" -> "TimelapseFrame"
      [] type = "POS" -> "PosFrame"
      [] OTHER -> "Frame"

\* Frame.__init__ and the subclasses' __init__: header, payload, parsed = False,
\* records = [], frames_index = [], _record_size_value = 0,
\* _gyro_data_size = 0, extra_metadata = None
NewFrame(h, cls, payload) ==
    [code |-> h.code, type |-> h.type, ver |-> h.ver, size |-> h.size, pos |-> h.pos,
     cls |-> cls, plen |-> payload.plen, content |-> payload.content,
     parsed |-> FALSE, records |-> <<>>, frames_index |-> <<>>,
     rsv |-> 0, gds |-> 0, extra |-> FALSE]

\* Frame.read
FrameRead(f, h) == NewFrame(h, ClassOf(h.type), PayloadAt(f, h.pos, h.size))

\* Frame.read_raw
FrameReadRaw(f, from_pos, to_pos) ==
    LET size == to_pos - from_pos
        p == PayloadAt(f, from_pos, size)
    IN NewFrame(FrameHeader(RAW, 0, size, from_pos), "Frame",
                [plen |-> p.plen, content |-> NoContent])

----------------------------------------------------------------------------
(* metadata.py lookups *)

\* InsvMetadata.find_frame: index of the first frame of that type, 0 for None
FindFrame(fs, type) ==
    LET hit == { k \in 1..Len(fs) : fs[k].type = type }
    IN IF hit = {} THEN 0 ELSE CHOOSE k \in hit : \A j \in hit : k <= j

\* InsvMetadata.find_frame_by_code
FindFrameByCode(fs, code) ==
    LET hit == { k \in 1..Len(fs) : fs[k].code = code }
    IN IF hit = {} THEN 0 ELSE CHOOSE k \in hit : \A j \in hit : k <= j

----------------------------------------------------------------------------
(* Decoding: frames/*.py, records/*.py *)

\* ExtraMetadata.ParseFromString(payload) raises on bytes that are no message;
\* such a payload carries the gyro length NotAMessage
NotAMessage == -1
ProtoParses(content) == content.glen # NotAMessage

\* len(extra_metadata.Gyro) when the message has the field, 0 when it has not
ProtoGyroLen(content) == content.glen

\* A faulty IndexEntries: the walk ends at the first empty entry
RECURSIVE IndexEntries_StopAtEmpty(_, _, _)
IndexEntries_StopAtEmpty(table, k, metadata_pos) ==
    IF k > Len(table) \/ FromIndexEntry(table[k], metadata_pos) = <<>> THEN <<>>
    ELSE << FromIndexEntry(table[k], metadata_pos) >>
         \o IndexEntries_StopAtEmpty(table, k + 1, metadata_pos)

\* The entry loop of IndexFrame._parse_internal
RECURSIVE IndexEntries(_, _, _)
IndexEntries(table, k, metadata_pos) ==
    IF k > Len(table) THEN <<>>
    ELSE << FromIndexEntry(table[k], metadata_pos) >> \o IndexEntries(table, k + 1, metadata_pos)

\* A faulty IndexParseInternal: a payload that is no whole number of entries
\* is decoded up to its last whole entry
IndexParseInternal_Truncating(metadata_pos, fs, i) ==
    [frames |-> [fs EXCEPT ![i].frames_index =
                     @ \o IndexEntries(fs[i].content.table, 1, metadata_pos)],
     st |-> "True"]

\* IndexFrame._parse_internal
IndexParseInternal(metadata_pos, fs, i) ==
    IF fs[i].plen % INDEX_ENTRY_SIZE # 0 THEN [frames |-> fs, st |-> "raise"]
    ELSE [frames |-> [fs EXCEPT ![i].frames_index =
                         @ \o IndexEntries(fs[i].content.table, 1, metadata_pos)],
          st |-> "True"]

\* InfoFrame._parse_internal
InfoParseInternal(fs, i) ==
    IF fs[i].ver # INFO_PROTOBUF_VERSION THEN [frames |-> fs, st |-> "raise"]
    ELSE IF ~ProtoParses(fs[i].content)
    THEN [frames |-> [fs EXCEPT ![i].extra = TRUE], st |-> "raise"]
    ELSE [frames |-> [fs EXCEPT ![i].extra = TRUE,
                                ![i].gds = ProtoGyroLen(fs[i].content)],
          st |-> "True"]

\* GyroFrame._record_size: the width and the frames with the width cached
GyroRecordSizeFrom(fs, i, info) ==
    IF info = 0 \/ fs[info].cls # "InfoFrame" THEN [w |-> 0, frames |-> fs]
    ELSE IF ~fs[info].parsed THEN [w |-> 0, frames |-> fs]
    ELSE [w |-> fs[info].gds, frames |-> [fs EXCEPT ![i].rsv = fs[info].gds]]

GyroRecordSize(fs, i) ==
    IF fs[i].rsv > 0 THEN [w |-> fs[i].rsv, frames |-> fs]
    ELSE GyroRecordSizeFrom(fs, i, FindFrame(fs, "INFO"))

\* _record_size of each TimestampedFrame subclass
RecordSize(fs, i) ==
    CASE fs[i].cls = "GyroFrame" -> GyroRecordSize(fs, i)
      [] fs[i].cls = "GpsFrame" -> [w |-> GPS_SIZE, frames |-> fs]
      [] fs[i].cls = "ExposureFrame" -> [w |-> EXPOSURE_SIZE, frames |-> fs]
      [] fs[i].cls = "TimelapseFrame" -> [w |-> TIMELAPSE_SIZE, frames |-> fs]
      [] fs[i].cls = "PosFrame" -> [w |-> POS_SIZE, frames |-> fs]

\* GyroRawRecord.parse: struct.unpack_from('<q', data, offset) needs 8 bytes
GyroRawRaises(plen, offset) == offset + TS_SIZE > plen

\* GyroRawRecord.parse: timestamp plus data[offset + 8 : offset + record_size]
GyroRawRecord(offset, w) ==
    [kind |-> "GyroRaw", off |-> offset, width |-> TS_SIZE + Max(0, w - TS_SIZE)]

\* _parse_record of each subclass: [raised, rec]; a record is the payload
\* slice it was decoded from
ParseRecord(cls, plen, offset, w) ==
    CASE cls = "GyroFrame" ->
            IF w = GYRO_V1_SIZE
            THEN [raised |-> FALSE, rec |-> [kind |-> "GyroV1", off |-> offset, width |-> GYRO_V1_SIZE]]
            ELSE IF w = GYRO_V2_SIZE
            THEN [raised |-> FALSE, rec |-> [kind |-> "GyroV2", off |-> offset, width |-> GYRO_V2_SIZE]]
            ELSE [raised |-> GyroRawRaises(plen, offset), rec |-> GyroRawRecord(offset, w)]
      [] cls = "GpsFrame" ->
            [raised |-> FALSE, rec |-> [kind |-> "Gps", off |-> offset, width |-> GPS_SIZE]]
      [] cls = "ExposureFrame" ->
            [raised |-> FALSE, rec |-> [kind |-> "Exposure", off |-> offset, width |-> EXPOSURE_SIZE]]
      [] cls = "TimelapseFrame" ->
            [raised |-> FALSE, rec |-> [kind |-> "Timelapse", off |-> offset, width |-> TIMELAPSE_SIZE]]
      [] cls = "PosFrame" ->
            [raised |-> FALSE, rec |-> [kind |-> "Pos", off |-> offset, width |-> POS_SIZE]]

\* The while loop of TimestampedFrame._parse_internal, appending to self.records
RECURSIVE RecordLoop(_, _, _, _, _)
RecordLoopStep(cls, plen, w, offset, recs, r) ==
    IF r.raised THEN [records |-> recs, raised |-> TRUE]
    ELSE RecordLoop(cls, plen, w, offset + w, Append(recs, r.rec))

RecordLoop(cls, plen, w, offset, recs) ==
    IF ~(offset + w <= plen) THEN [records |-> recs, raised |-> FALSE]
    ELSE RecordLoopStep(cls, plen, w, offset, recs, ParseRecord(cls, plen, offset, w))

\* A faulty RecordsResult: the decoded bytes are consumed from the payload
RecordsResult_ConsumesPayload(fs, i, l) ==
    [frames |-> [fs EXCEPT ![i].records = l.records, ![i].plen = 0],
     st |-> IF l.raised THEN "raise" ELSE "True"]

\* TimestampedFrame._parse_internal, once the loop has ended or raised
RecordsResult(fs, i, l) ==
    [frames |-> [fs EXCEPT ![i].records = l.records],
     st |-> IF l.raised THEN "raise" ELSE "True"]

\* TimestampedFrame._parse_internal, once the record size rs is known
ParseRecords(rs, i) ==
    IF rs.w <= 0 THEN [frames |-> rs.frames, st |-> "False"]
    ELSE RecordsResult(rs.frames, i,
             RecordLoop(rs.frames[i].cls, rs.frames[i].plen, rs.w, 0, rs.frames[i].records))

\* TimestampedFrame._parse_internal
TimestampedParseInternal(fs, i) == ParseRecords(RecordSize(fs, i), i)

\* A faulty ParseInternal: the base class reports success
ParseInternal_BaseSucceeds(metadata_pos, fs, i) ==
    CASE fs[i].cls = "IndexFrame" -> IndexParseInternal(metadata_pos, fs, i)
      [] fs[i].cls = "InfoFrame" -> InfoParseInternal(fs, i)
      [] fs[i].cls = "Frame" -> [frames |-> fs, st |-> "True"]
      [] OTHER -> TimestampedParseInternal(fs, i)

\* _parse_internal, by class; the base class returns False
ParseInternal(metadata_pos, fs, i) ==
    CASE fs[i].cls = "IndexFrame" -> IndexParseInternal(metadata_pos, fs, i)
      [] fs[i].cls = "InfoFrame" -> InfoParseInternal(fs, i)
      [] fs[i].cls = "Frame" -> [frames |-> fs, st |-> "False"]
      [] OTHER -> TimestampedParseInternal(fs, i)

\* A faulty SetParsed: the decoded flag set whatever _parse_internal returned
SetParsed_Always(r, i) ==
    [frames |-> [r.frames EXCEPT ![i].parsed = TRUE], ret |-> "True"]

\* Frame.parse: [frames, ret] with ret "True" | "False" | "raise"
\* self.parsed = self._parse_internal(metadata); an exception leaves it as it was
SetParsed(r, i) ==
    IF r.st = "raise" THEN [frames |-> r.frames, ret |-> "raise"]
    ELSE [frames |-> [r.frames EXCEPT ![i].parsed = (r.st = "True")], ret |-> r.st]

FrameParse(metadata_pos, fs, i) ==
    IF fs[i].parsed THEN [frames |-> fs, ret |-> "True"]
    ELSE SetParsed(ParseInternal(metadata_pos, fs, i), i)

----------------------------------------------------------------------------
(* metadata.py: build-from-source *)

\* Frame.read of every non-None entry of the index, in table order;
\* file.seek raises on a negative position
RECURSIVE ReadEntries(_, _, _)
PutFirst(fr, rest) == [st |-> rest.st, frames |-> <<fr>> \o rest.frames]

ReadEntries(f, index, k) ==
    IF k > Len(index) THEN [st |-> "ok", frames |-> <<>>]
    ELSE IF index[k] = <<>> THEN ReadEntries(f, index, k + 1)
    ELSE IF index[k][1].pos < 0 THEN [st |-> "raise", frames |-> <<>>]
    ELSE PutFirst(FrameRead(f, index[k][1]), ReadEntries(f, index, k + 1))

\* The gap-filling walk of _read_indexed_frames over the sorted frames
RECURSIVE FillGaps(_, _, _, _)
FrameEndPos(fr) == fr.pos + fr.size + FRAME_HEADER_SIZE

\* The raw frame put before fr when fr ends short of the previous frame
RawBefore(f, fr, prev_pos) ==
    IF FrameEndPos(fr) < prev_pos
    THEN << FrameReadRaw(f, FrameEndPos(fr), prev_pos) >>
    ELSE <<>>

FillGaps(f, sorted, k, prev_pos) ==
    IF k > Len(sorted) THEN <<>>
    ELSE RawBefore(f, sorted[k], prev_pos) \o << sorted[k] >>
         \o FillGaps(f, sorted, k + 1, sorted[k].pos)

\* InsvMetadata._read_indexed_frames, once the listed frames are read
SortAndFill(f, rd, prev_pos) ==
    IF rd.st = "raise" THEN rd
    ELSE [st |-> "ok", frames |-> FillGaps(f, SortDescByPos(rd.frames), 1, prev_pos)]

\* InsvMetadata._read_indexed_frames
ReadIndexedFrames(f, index_frame) ==
    SortAndFill(f, ReadEntries(f, index_frame.frames_index, 1), index_frame.pos)

\* The while loop of InsvMetadata.read; scanned lists every cur_pos at which
\* a trailing header was read
RECURSIVE ScanLoop(_, _, _, _, _)

\* frames.extend(cls._read_indexed_frames(file, frame, metadata)); break
ExtendIndexed(fs, ix, scanned) ==
    [st |-> ix.st, frames |-> fs \o ix.frames, scanned |-> scanned]

\* The INDEX branch: p is the outcome of frame.parse(metadata) on frame n
UseIndex(f, p, n, scanned) ==
    IF p.ret = "raise" THEN [st |-> "raise", frames |-> p.frames, scanned |-> scanned]
    ELSE ExtendIndexed(p.frames, ReadIndexedFrames(f, p.frames[n]), scanned)

\* A faulty ScanStep: the linear scan goes on past an INDEX frame
ScanStep_PastIndex(f, metadata_pos, cur_pos, acc, scanned, h) ==
    IF h.pos < 0 THEN [st |-> "raise", frames |-> acc, scanned |-> scanned]
    ELSE ScanLoop(f, metadata_pos, cur_pos - h.size - FRAME_HEADER_SIZE,
                  Append(acc, FrameRead(f, h)), scanned)

\* A faulty ScanStep: the position is lowered by the payload size and one
\* byte, not by the six bytes of the header just read
ScanStep_HeaderNotSkipped(f, metadata_pos, cur_pos, acc, scanned, h) ==
    IF h.pos < 0 THEN [st |-> "raise", frames |-> acc, scanned |-> scanned]
    ELSE IF h.type = "INDEX"
    THEN UseIndex(f, FrameParse(metadata_pos, Append(acc, FrameRead(f, h)), Len(acc) + 1),
                  Len(acc) + 1, scanned)
    ELSE ScanLoop(f, metadata_pos, cur_pos - h.size - 1,
                  Append(acc, FrameRead(f, h)), scanned)

\* One iteration, h being the header read backward from cur_pos
ScanStep(f, metadata_pos, cur_pos, acc, scanned, h) ==
    IF h.pos < 0 THEN [st |-> "raise", frames |-> acc, scanned |-> scanned]
    ELSE IF h.type = "INDEX"
    THEN UseIndex(f, FrameParse(metadata_pos, Append(acc, FrameRead(f, h)), Len(acc) + 1),
                  Len(acc) + 1, scanned)
    ELSE ScanLoop(f, metadata_pos, cur_pos - h.size - FRAME_HEADER_SIZE,
                  Append(acc, FrameRead(f, h)), scanned)

ScanLoop(f, metadata_pos, cur_pos, acc, scanned) ==
    IF ~(cur_pos > metadata_pos) THEN [st |-> "ok", frames |-> acc, scanned |-> scanned]
    ELSE IF cur_pos - FRAME_HEADER_SIZE < 0
    THEN [st |-> "raise", frames |-> acc, scanned |-> scanned]
    ELSE ScanStep(f, metadata_pos, cur_pos, acc, Append(scanned, cur_pos),
                  ReadBackward(f, cur_pos))

\* A faulty FinishRead: the reversal without the raw filler at the start of
\* the region
FinishRead_NoLeadingRaw(f, metadata_pos, fs) == [st |-> "ok", frames |-> Reverse(fs)]

\* The raw filler at the start of the region, then the reversal
FinishRead(f, metadata_pos, fs) ==
    IF fs # <<>> /\ fs[Len(fs)].pos > metadata_pos
    THEN IF metadata_pos < 0 THEN [st |-> "raise", frames |-> <<>>]
         ELSE [st |-> "ok",
               frames |-> Reverse(Append(fs, FrameReadRaw(f, metadata_pos, fs[Len(fs)].pos)))]
    ELSE [st |-> "ok", frames |-> Reverse(fs)]

\* InsvMetadata.read: st is "none" (returns None), "raise" or "ok"
ReadReturn(hdr, fin, scanned) ==
    [st |-> fin.st, header |-> IF fin.st = "ok" THEN hdr ELSE NoHeader,
     frames |-> fin.frames, scanned |-> scanned]

AfterScan(f, hdr, sc) ==
    IF sc.st = "raise"
    THEN [st |-> "raise", header |-> NoHeader, frames |-> <<>>, scanned |-> sc.scanned]
    ELSE ReadReturn(hdr, FinishRead(f, hdr.metadata_pos, sc.frames), sc.scanned)

AfterHeader(f, hd) ==
    IF hd.st # "ok"
    THEN [st |-> hd.st, header |-> NoHeader, frames |-> <<>>, scanned |-> <<>>]
    ELSE AfterScan(f, hd.header,
             ScanLoop(f, hd.header.metadata_pos, f.fsize - HEADER_SIZE, <<>>, <<>>))

InsvMetadataRead(f) == AfterHeader(f, InsvHeaderRead(f))

\* The while loop of InsvMetadata.read when no frame takes the INDEX branch:
\* the directory by backward linear scan alone
RECURSIVE LinearScanLoop(_, _, _, _)
LinearScanStep(f, metadata_pos, cur_pos, acc, h) ==
    IF h.pos < 0 THEN [st |-> "raise", frames |-> acc]
    ELSE LinearScanLoop(f, metadata_pos, cur_pos - h.size - FRAME_HEADER_SIZE,
                        Append(acc, FrameRead(f, h)))

LinearScanLoop(f, metadata_pos, cur_pos, acc) ==
    IF ~(cur_pos > metadata_pos) THEN [st |-> "ok", frames |-> acc]
    ELSE IF cur_pos - FRAME_HEADER_SIZE < 0 THEN [st |-> "raise", frames |-> acc]
    ELSE LinearScanStep(f, metadata_pos, cur_pos, acc, ReadBackward(f, cur_pos))

LinearScanFinish(f, metadata_pos, sc) ==
    IF sc.st = "raise" THEN [st |-> "raise", frames |-> <<>>]
    ELSE FinishRead(f, metadata_pos, sc.frames)

LinearScan(f, metadata_pos) ==
    LinearScanFinish(f, metadata_pos,
        LinearScanLoop(f, metadata_pos, f.fsize - HEADER_SIZE, <<>>))

----------------------------------------------------------------------------
(* metadata.py: bulk parse *)

\* The for loop of InsvMetadata.parse; trace lists the frames Frame.parse was
\* called on, in call order
RECURSIVE ParseLoop(_, _, _, _, _, _)

\* p is the outcome of frame.parse(self); an exception ends the call
ParseLoopFrom(metadata_pos, p, k, info, types, trace) ==
    IF p.ret = "raise" THEN [frames |-> p.frames, ret |-> "raise", trace |-> trace]
    ELSE ParseLoop(metadata_pos, p.frames, k, info, types, trace)

ParseLoop(metadata_pos, fs, k, info, types, trace) ==
    IF k > Len(fs) THEN [frames |-> fs, ret |-> "None", trace |-> trace]
    ELSE IF k = info \/ fs[k].type \notin types
    THEN ParseLoop(metadata_pos, fs, k + 1, info, types, trace)
    ELSE ParseLoopFrom(metadata_pos, FrameParse(metadata_pos, fs, k), k + 1, info, types,
                       Append(trace, k))

\* A faulty ParseInfoFirst: every frame decoded in directory order, the INFO
\* frame at its own place
ParseInfoFirst_InOrder(metadata_pos, fs, info, types_to_parse) ==
    ParseLoop(metadata_pos, fs, 1, 0, types_to_parse, <<>>)

\* InsvMetadata.parse, info being find_frame(FrameType.INFO)
ParseInfoFirst(metadata_pos, fs, info, types_to_parse) ==
    IF info = 0 THEN ParseLoop(metadata_pos, fs, 1, 0, types_to_parse, <<>>)
    ELSE ParseLoopFrom(metadata_pos, FrameParse(metadata_pos, fs, info), 1, info,
                       types_to_parse, <<info>>)

\* A faulty MetadataParse: every frame type decoded, whatever the extra set
MetadataParse_EveryType(metadata_pos, fs, include_types) ==
    ParseInfoFirst(metadata_pos, fs, FindFrame(fs, "INFO"),
                   DEFAULT_PARSED_TYPES \cup {"POS", "MAGNETIC"})

\* InsvMetadata.parse(include_types)
MetadataParse(metadata_pos, fs, include_types) ==
    ParseInfoFirst(metadata_pos, fs, FindFrame(fs, "INFO"),
                   DEFAULT_PARSED_TYPES \cup include_types)

----------------------------------------------------------------------------
(* The input files the model explores *)

MaxSegs == 3        \* frames laid out in a file
MaxTable == 2       \* entries of an index table filled freely
MaxRecs == 4        \* record-list length up to which decodes are still issued
VideoLen == 16      \* bytes of video data before the first laid-out frame

SeqsUpTo(S, n) == UNION { [1..k -> S] : k \in 0..n }

Seg(code, ver, len, glen, table) ==
    [code |-> code, ver |-> ver, len |-> len, glen |-> glen, table |-> table]

ZeroHeaderBytes == [ver |-> 0, code |-> 0, size |-> 0]

\* A file with a matching signature: the trailer's metadata size is the bytes
\* of the laid-out frames plus the trailer, plus delta
MkFile(segs, delta, junk) ==
    [fsize |-> VideoLen + SegBytes(segs, 1) + HEADER_SIZE,
     sig |-> TRUE, version |-> SUPPORTED_VERSION,
     msize |-> SegBytes(segs, 1) + HEADER_SIZE + delta,
     segs |-> segs, junk |-> junk]

\* Frames of the width dependency: INFO frames exposing gyro lengths 0, 4 and
\* 20, GYRO payloads shorter and longer than a record
GyroSegs ==
    { Seg(INFO, INFO_PROTOBUF_VERSION, 10, g, <<>>) : g \in {0, 4, GYRO_V2_SIZE} }
    \cup { Seg(GYRO, 1, l, 0, <<>>) : l \in {10, 60} }

\* Frames for the decoding operations: those, INFO frames exposing gyro
\* length 56, holding no message or carrying an unsupported version,
\* fixed-width record frames with a partial tail, a known type without decoder
\* and an unknown type code
DecodeSegs ==
    GyroSegs
    \cup { Seg(INFO, INFO_PROTOBUF_VERSION, 10, GYRO_V1_SIZE, <<>>),
           Seg(INFO, INFO_PROTOBUF_VERSION, 10, NotAMessage, <<>>),
           Seg(INFO, 2, 10, GYRO_V2_SIZE, <<>>) }
    \cup { Seg(EXPOSURE, 1, 20, 0, <<>>), Seg(POS, 1, 50, 0, <<>>),
           Seg(MAGNETIC, 1, 10, 0, <<>>), Seg(UNKNOWN_CODE, 1, 10, 0, <<>>) }

DecodeFiles ==
    { MkFile(segs, 0, ZeroHeaderBytes) :
        segs \in SeqsUpTo(DecodeSegs, MaxSegs - 1) \cup [1..MaxSegs -> GyroSegs] }

\* Frames meeting a soft condition, put before or after two frames of the
\* width dependency: an unknown type code, a record payload shorter than a
\* record
SoftSegs == { Seg(UNKNOWN_CODE, 1, 10, 0, <<>>), Seg(EXPOSURE, 1, 10, 0, <<>>) }

SoftFiles ==
    { MkFile(<<u>> \o segs, 0, ZeroHeaderBytes) :
        u \in SoftSegs, segs \in [1..2 -> GyroSegs] }
    \cup { MkFile(segs \o <<u>>, 0, ZeroHeaderBytes) :
             u \in SoftSegs, segs \in [1..2 -> GyroSegs] }

\* Gyro lengths an INFO frame may expose: the two known record sizes, one
\* other size that holds a timestamp, one that does not
GyroWidths == {GYRO_V1_SIZE, GYRO_V2_SIZE, 12, 7}

\* An INFO frame followed by two GYRO frames that differ in the version byte
VariantFiles ==
    { MkFile(<< Seg(INFO, INFO_PROTOBUF_VERSION, 10, g, <<>>),
                Seg(GYRO, 1, l, 0, <<>>), Seg(GYRO, 2, l, 0, <<>>) >>,
             0, ZeroHeaderBytes) : g \in GyroWidths, l \in {10, 60} }

\* Frames for directory reconstruction: decoding plays no part in it, so
\* they are of types without decoder
DirSegs == { Seg(THUMBNAIL, 1, 20, 0, <<>>), Seg(UNKNOWN_CODE, 0, 4, 0, <<>>) }

\* The index entry describing body frame k, for a region starting delta bytes
\* before the first laid-out frame
RECURSIVE BodyStart(_, _)
BodyStart(body, k) ==
    IF k = 1 THEN 0 ELSE BodyStart(body, k - 1) + body[k - 1].len + FRAME_HEADER_SIZE

EntryOf(body, k, delta) ==
    [code |-> body[k].code, ver |-> body[k].ver, size |-> body[k].len,
     off |-> BodyStart(body, k) + delta]

ZeroEntry == [code |-> 0, ver |-> 0, size |-> 0, off |-> 0]

\* Entries no laid-out frame backs: type, version and size zero at a non-zero
\* offset; a frame reaching past the end of the file
OddEntries ==
    { [code |-> 0, ver |-> 0, size |-> 0, off |-> 10],
      [code |-> UNKNOWN_CODE, ver |-> 1, size |-> 4, off |-> 200] }

\* body with an INDEX frame holding table (and pad stray bytes) put at place p
WithIndex(body, p, table, pad) ==
    SubSeq(body, 1, p - 1)
    \o << Seg(INDEX, 1, INDEX_ENTRY_SIZE * Len(table) + pad, 0, table) >>
    \o SubSeq(body, p, Len(body))

\* Where body frame k lands once the INDEX frame is inserted at p: the index
\* frame's own bytes shift the frames behind it
EntryWithIndex(body, p, k, delta, idxBytes) ==
    LET e == EntryOf(body, k, delta)
    IN IF k >= p THEN [e EXCEPT !.off = @ + idxBytes] ELSE e

\* An INDEX frame at place p whose n entries are filled freely: entries of
\* body frames before and after it, repeated or left out, all-zero and odd
\* entries
IndexedSegs(body, p, n) ==
    LET idxBytes == INDEX_ENTRY_SIZE * n + FRAME_HEADER_SIZE
        entries == { ZeroEntry } \cup OddEntries
                   \cup { EntryWithIndex(body, p, k, 0, idxBytes) : k \in 1..Len(body) }
    IN { WithIndex(body, p, table, 0) : table \in [1..n -> entries] }

\* The tables of an INDEX frame that ends the region and lists every body
\* frame once, in any order, with or without one all-zero slot
InsertAt(t, z, e) == SubSeq(t, 1, z - 1) \o <<e>> \o SubSeq(t, z, Len(t))

Orders(n) == { o \in [1..n -> 1..n] : \A i, j \in 1..n : i # j => o[i] # o[j] }

ListedTables(body, delta) ==
    LET full == { [j \in 1..Len(body) |-> EntryOf(body, o[j], delta)] : o \in Orders(Len(body)) }
    IN full \cup { InsertAt(t, z, ZeroEntry) : t \in full, z \in 1..(Len(body) + 1) }

ListedSegs(body, pad, delta) ==
    { WithIndex(body, Len(body) + 1, table, pad) : table \in ListedTables(body, delta) }

JunkHeaders == { [ver |-> 0, code |-> UNKNOWN_CODE, size |-> 0],
                 [ver |-> 0, code |-> UNKNOWN_CODE, size |-> 30] }

\* Region starts: at the first frame, inside the video prefix, inside the
\* first frame
Deltas == {0, 12, -3}

DirBodies == SeqsUpTo(DirSegs, MaxSegs - 1)

IndexedFiles ==
    UNION { UNION { UNION { { MkFile(segs, 0, ZeroHeaderBytes) :
                              segs \in IndexedSegs(body, p, n) }
                            : n \in 0..MaxTable }
                    : p \in 1..(Len(body) + 1) }
            : body \in DirBodies }

ListedFiles ==
    UNION { { MkFile(segs, 0, ZeroHeaderBytes) : segs \in ListedSegs(body, 0, 0) }
            : body \in DirBodies }

\* Index payloads whose length is not a multiple of the entry size
PaddedIndexFiles ==
    UNION { { MkFile(segs, 0, ZeroHeaderBytes) : segs \in ListedSegs(body, 3, 0) }
            : body \in DirBodies }

\* Indexed files whose region starts off the first frame
ShiftedIndexFiles ==
    UNION { UNION { { MkFile(segs, d, ZeroHeaderBytes) : segs \in ListedSegs(body, 0, d) }
                    : d \in Deltas \ {0} }
            : body \in DirBodies }

ScanFiles ==
    { MkFile(body, d, j) : body \in DirBodies, d \in Deltas \ {0}, j \in JunkHeaders }

\* Files whose trailer claims more metadata than the file holds, so that
\* metadata_pos is negative
OverlongFiles ==
    { MkFile(body, VideoLen + 8, j) : body \in SeqsUpTo(DirSegs, 1), j \in JunkHeaders }

\* Files without a usable trailer: shorter than the trailer (the last 32
\* bytes can still be the signature once there are 32), or of full size with a
\* foreign signature or another version
ShortSizes == {0, 40, HEADER_SIZE - 1}
Versions == {SUPPORTED_VERSION, SUPPORTED_VERSION + 1}

ShortFile(n, g, v) ==
    [fsize |-> n, sig |-> g, version |-> v, msize |-> HEADER_SIZE,
     segs |-> <<>>, junk |-> ZeroHeaderBytes]

ShortFiles ==
    { ShortFile(c[1], c[2], c[3]) :
        c \in { d \in ShortSizes \X BOOLEAN \X Versions : d[2] => d[1] >= 32 } }

TrailerFiles ==
    { [MkFile(segs, 0, ZeroHeaderBytes) EXCEPT !.sig = g, !.version = v] :
        segs \in SeqsUpTo(DirSegs, 1), g \in BOOLEAN, v \in Versions }

Files ==
    DecodeFiles \cup IndexedFiles \cup ListedFiles \cup PaddedIndexFiles
    \cup ShiftedIndexFiles \cup ScanFiles \cup ShortFiles \cup TrailerFiles
    \cup SoftFiles \cup VariantFiles \cup OverlongFiles

----------------------------------------------------------------------------
(* The state machine *)

ExtraSets == { {}, {"POS"}, {"POS", "MAGNETIC"} }

Call(op, idx, types, ret, trace) ==
    [op |-> op, idx |-> idx, types |-> types, ret |-> ret, trace |-> trace]

Init ==
    /\ file \in Files
    /\ pc = "start"
    /\ header = NoHeader
    /\ frames = <<>>
    /\ last = Call("none", 0, {}, "None", <<>>)

\* metadata = InsvMetadata.read(file)
ReadDone(r) ==
    /\ pc' = CASE r.st = "ok" -> "built" [] r.st = "none" -> "none" [] OTHER -> "error"
    /\ header' = r.header
    /\ frames' = r.frames
    /\ last' = Call("read", 0, {}, r.st, r.scanned)

Read ==
    /\ pc = "start"
    /\ ReadDone(InsvMetadataRead(file))
    /\ UNCHANGED file

\* Decodes are issued while no record list has outgrown MaxRecs
MayDecode == pc = "built" /\ \A k \in 1..Len(frames) : Len(frames[k].records) <= MaxRecs

\* metadata.frames[i].parse(metadata)
ParseOneDone(i, r) ==
    /\ frames' = r.frames
    /\ last' = Call("parse", i, {}, r.ret, <<i>>)

ParseOne(i) ==
    /\ MayDecode
    /\ ParseOneDone(i, FrameParse(header.metadata_pos, frames, i))
    /\ UNCHANGED <<file, pc, header>>

\* metadata.parse(include_types)
BulkParseDone(include_types, r) ==
    /\ frames' = r.frames
    /\ last' = Call("bulk", 0, include_types, r.ret, r.trace)

BulkParse(include_types) ==
    /\ MayDecode
    /\ BulkParseDone(include_types, MetadataParse(header.metadata_pos, frames, include_types))
    /\ UNCHANGED <<file, pc, header>>

\* The lookups issued: by a type, by a code that has no type
LookupTypes == {"POS"}
LookupCodes == {UNKNOWN_CODE}

Found(k) == IF k = 0 THEN "None" ELSE "Frame"

\* metadata.find_frame(frame_type)
FindFrameDone(frame_type, k) ==
    /\ last' = Call("find_frame", k, {frame_type}, Found(k), <<>>)
    /\ UNCHANGED <<file, pc, header, frames>>

FindFrameCall(frame_type) ==
    /\ pc = "built"
    /\ FindFrameDone(frame_type, FindFrame(frames, frame_type))

\* metadata.find_frame_by_code(frame_type_code)
FindFrameByCodeDone(frame_type_code, k) ==
    /\ last' = Call("find_frame_by_code", k, {FromCode(frame_type_code)}, Found(k), <<>>)
    /\ UNCHANGED <<file, pc, header, frames>>

FindFrameByCodeCall(frame_type_code) ==
    /\ pc = "built"
    /\ FindFrameByCodeDone(frame_type_code, FindFrameByCode(frames, frame_type_code))

Next ==
    \/ Read
    \/ \E i \in 1..Len(frames) : ParseOne(i)
    \/ \E include_types \in ExtraSets : BulkParse(include_types)
    \/ \E frame_type \in LookupTypes : FindFrameCall(frame_type)
    \/ \E frame_type_code \in LookupCodes : FindFrameByCodeCall(frame_type_code)

Spec == Init /\ [][Next]_vars

----------------------------------------------------------------------------
(* Vocabulary of the properties *)

\* read has just returned a model
AfterRead == pc = "built" /\ last.op = "read"

RegionLo == header.metadata_pos
RegionHi == file.fsize - HEADER_SIZE

Descriptor(fr) == [code |-> fr.code, ver |-> fr.ver, size |-> fr.size, pos |-> fr.pos]
Descriptors(fs) == [k \in 1..Len(fs) |-> Descriptor(fs[k])]

IsRaw(fr) == fr.type = "RAW"
RealFrames == { k \in 1..Len(frames) : ~IsRaw(frames[k]) }
RawFrames == { k \in 1..Len(frames) : IsRaw(frames[k]) }

\* The byte range of a descriptor as the specification states it, payload
\* plus trailing header for every frame
HeaderedEnd(fr) == fr.pos + fr.size + FRAME_HEADER_SIZE

\* The byte range a descriptor stands for: a raw filler has no trailing header
ClaimedEnd(fr) == IF IsRaw(fr) THEN fr.pos + fr.size ELSE HeaderedEnd(fr)

\* The ranges [pos, End(frame)) leave no byte of the region unclaimed
Covers(End(_)) ==
    \A b \in RegionLo..(RegionHi - 1) :
        \E k \in 1..Len(frames) : frames[k].pos <= b /\ b < End(frames[k])

\* ... claim no byte twice and none outside the region
Disjoint(End(_)) ==
    \A k, j \in 1..Len(frames) :
        k # j => (End(frames[k]) <= frames[j].pos \/ End(frames[j]) <= frames[k].pos)

Inside(End(_)) ==
    \A k \in 1..Len(frames) : RegionLo <= frames[k].pos /\ End(frames[k]) <= RegionHi

ExactTiling(End(_)) == Covers(End) /\ Disjoint(End) /\ Inside(End)

\* The frames found in the file (scanned or listed by the index) lie inside
\* the region and do not overlap one another
RealFramesWellPlaced ==
    /\ \A k \in RealFrames : RegionLo <= frames[k].pos /\ HeaderedEnd(frames[k]) <= RegionHi
    /\ \A k, j \in RealFrames :
          k # j => (HeaderedEnd(frames[k]) <= frames[j].pos
                    \/ HeaderedEnd(frames[j]) <= frames[k].pos)

----------------------------------------------------------------------------
(* C1 *)

----------------------------------------------------------------------------
(* C2 *)

\* The positions in the call trace of a bulk parse at which frame k is decoded
TracePlaces(k) == { j \in 1..Len(last.trace) : last.trace[j] = k }
FramesOfType(type) == { k \in 1..Len(frames) : frames[k].type = type }
FirstOfType(type) == CHOOSE k \in FramesOfType(type) : \A j \in FramesOfType(type) : k <= j

\* C2 as stated: in a bulk parse every INFO frame of the directory is decoded
\* before the decode of any GYRO frame starts.
C2_EveryInfoBeforeGyro ==
    last.op = "bulk" =>
        \A k \in FramesOfType("INFO") : \A g \in FramesOfType("GYRO") :
            \A j \in TracePlaces(g) : \E j2 \in TracePlaces(k) : j2 < j

\* C2 amended: in a bulk parse the first INFO frame of the directory, when
\* there is one, is the first frame decoded, whatever the directory order and
\* the extra-type set: its decode has ended before the decode of any GYRO
\* frame (or of a later INFO frame) starts.
C2_FirstInfoDecodedFirst ==
    (last.op = "bulk" /\ FramesOfType("INFO") # {}) =>
        /\ last.trace # <<>>
        /\ last.trace[1] = FirstOfType("INFO")
        /\ \A g \in FramesOfType("GYRO") : \A j \in TracePlaces(g) : j > 1

\* A bulk parse that decoded a GYRO frame positioned before the INFO frame
C2_Witness ==
    /\ last.op = "bulk"
    /\ last.ret = "None"
    /\ \E g \in FramesOfType("GYRO") : \E k \in FramesOfType("INFO") :
          g < k /\ TracePlaces(g) # {} /\ frames[g].parsed /\ frames[g].records # <<>>

----------------------------------------------------------------------------
(* C3 *)

\* The width of GYRO records cannot be resolved: no INFO frame, or the first
\* one is undecoded or exposes gyro length 0
WidthUnresolved ==
    \/ FramesOfType("INFO") = {}
    \/ ~frames[FirstOfType("INFO")].parsed
    \/ frames[FirstOfType("INFO")].gds = 0

WidthResolvedTo(w) ==
    /\ FramesOfType("INFO") # {}
    /\ frames[FirstOfType("INFO")].parsed
    /\ frames[FirstOfType("INFO")].gds = w

\* The step is a call of Frame.parse on frame i / of InsvMetadata.parse
Decodes(i) == pc = "built" /\ last'.op = "parse" /\ last'.idx = i
BulkDecodes == pc = "built" /\ last'.op = "bulk"

\* Decoding GYRO frame i while the width is unresolved fails quietly
GyroDecodeFailsQuietly(i) ==
    (Decodes(i) /\ frames[i].type = "GYRO" /\ WidthUnresolved) =>
        /\ last'.ret = "False"
        /\ ~frames'[i].parsed
        /\ frames'[i].records = <<>>

\* C3 as stated: ... and once the INFO frame is decoded and the width is 56
\* or 20, decoding the GYRO frame yields a non-empty record list and a true
\* decoded flag.
C3_RetryYieldsRecords ==
    [][\A i \in 1..Len(frames) :
          /\ GyroDecodeFailsQuietly(i)
          /\ \A w \in {GYRO_V1_SIZE, GYRO_V2_SIZE} :
               (Decodes(i) /\ frames[i].type = "GYRO" /\ ~frames[i].parsed /\ WidthResolvedTo(w)) =>
                   /\ last'.ret = "True"
                   /\ frames'[i].parsed
                   /\ frames'[i].records # <<>>]_vars

\* C3 amended: decoding a GYRO frame while the first INFO frame is absent,
\* undecoded or exposes gyro length 0 returns failure without raising and
\* leaves the decoded flag false and the record list empty; once the first
\* INFO frame is decoded and the width w is 56 or 20, decoding the GYRO frame
\* returns success with a true decoded flag and floor(L / w) records for a
\* payload of L bytes: a non-empty list exactly when L >= w.
C3_RetryYieldsWholeRecords ==
    [][\A i \in 1..Len(frames) :
          /\ GyroDecodeFailsQuietly(i)
          /\ \A w \in {GYRO_V1_SIZE, GYRO_V2_SIZE} :
               (Decodes(i) /\ frames[i].type = "GYRO" /\ ~frames[i].parsed /\ WidthResolvedTo(w)) =>
                   /\ last'.ret = "True"
                   /\ frames'[i].parsed
                   /\ Len(frames'[i].records) = frames[i].plen \div w
                   /\ (frames'[i].records # <<>>) <=> (frames[i].plen >= w)]_vars

\* A GYRO frame decoded with records by a single-frame decode
C3_Witness ==
    /\ last.op = "parse"
    /\ last.ret = "True"
    /\ frames[last.idx].type = "GYRO"
    /\ frames[last.idx].records # <<>>
    /\ frames[last.idx].rsv \in {GYRO_V1_SIZE, GYRO_V2_SIZE}

----------------------------------------------------------------------------
(* C4, C5 *)

\* C4 as stated: Frame.parse on a frame whose decoded flag is true returns
\* success and changes nothing, and a bulk parse that follows a bulk parse
\* with the same extra-type set changes nothing.
C4_DecodeIdempotent ==
    [][/\ \A i \in 1..Len(frames) :
             (Decodes(i) /\ frames[i].parsed) => (last'.ret = "True" /\ frames' = frames)
       /\ (BulkDecodes /\ last.op = "bulk" /\ last'.types = last.types) => frames' = frames]_vars

\* C5 as stated: a decode attempt that fails, by returning failure or by
\* raising, leaves the frame's decoded flag false and its decoded state
\* (record list, index table) as it was before the attempt.
C5_FailedDecodeLeavesNoTrace ==
    [][\A i \in 1..Len(frames) :
          (Decodes(i) /\ last'.ret \in {"False", "raise"}) =>
              /\ ~frames'[i].parsed
              /\ frames'[i].records = frames[i].records
              /\ frames'[i].frames_index = frames[i].frames_index]_vars

----------------------------------------------------------------------------
(* C6 *)

\* The index entry that describes laid-out frame k of file f
SegEntry(f, k) ==
    [code |-> f.segs[k].code, ver |-> f.segs[k].ver, size |-> f.segs[k].len,
     off |-> SegStart(f, k) - (f.fsize - f.msize)]

IndexSegs(f) == { k \in 1..Len(f.segs) : f.segs[k].code = INDEX }

\* Index frame p of f lists the frames that precede it, each once, in any
\* order, with all-zero slots anywhere
ListsPrecedingFrames(f, p) ==
    /\ f.segs[p].len = INDEX_ENTRY_SIZE * Len(f.segs[p].table)
    /\ \A j \in 1..Len(f.segs[p].table) :
          \/ f.segs[p].table[j] = ZeroEntry
          \/ \E k \in 1..(p - 1) : f.segs[p].table[j] = SegEntry(f, k)
    /\ \A k \in 1..(p - 1) :
          Cardinality({ j \in 1..Len(f.segs[p].table) : f.segs[p].table[j] = SegEntry(f, k) }) = 1

\* A well-formed file with an INDEX frame: the metadata region is the laid-out
\* frames exactly, one of them is an INDEX frame, and its table lists the
\* frames that precede it
WellFormedIndexed(f) ==
    /\ f.msize = SegBytes(f.segs, 1) + HEADER_SIZE
    /\ Cardinality(IndexSegs(f)) = 1
    /\ \A p \in IndexSegs(f) : ListsPrecedingFrames(f, p)

SameDirectory(r) == r.st = "ok" /\ Descriptors(r.frames) = Descriptors(frames)

\* C6: for every well-formed file that contains an INDEX frame, the directory
\* read returns (index-table strategy) and the directory of a pure backward
\* linear scan hold the same descriptors (type code, version, size, position)
\* in the same order.
C6_ScanAndIndexAgree ==
    (AfterRead /\ WellFormedIndexed(file)) => SameDirectory(LinearScan(file, header.metadata_pos))

\* A directory built from an index that lists two frames out of position
\* order around an all-zero slot
C6_Witness ==
    /\ AfterRead
    /\ WellFormedIndexed(file)
    /\ Len(frames) = 3
    /\ \E p \in IndexSegs(file) :
          /\ p = 3
          /\ Len(file.segs[p].table) = 3
          /\ file.segs[p].table[1] = SegEntry(file, 1)
          /\ file.segs[p].table[2] = ZeroEntry
          /\ file.segs[p].table[3] = SegEntry(file, 2)

----------------------------------------------------------------------------
(* C7, C8 *)

\* C7 as stated: the frames of every model read returns are in ascending
\* position order, f.position < g.position for consecutive frames f, g.
C7_AscendingPositions ==
    AfterRead => \A k \in 1..(Len(frames) - 1) : frames[k].pos < frames[k + 1].pos

\* C8 as stated: every descriptor of a model read returns has
\* position >= metadata_pos and position + size + 6 <= file_size.
C8_DescriptorsInBounds ==
    AfterRead => \A k \in 1..Len(frames) :
                /\ frames[k].pos >= header.metadata_pos
                /\ frames[k].pos + frames[k].size + FRAME_HEADER_SIZE <= file.fsize

----------------------------------------------------------------------------
(* C9, C10 *)

\* The INDEX frame read decoded to build the directory, and entry j of its
\* payload
UsedIndex == { x \in 1..Len(frames) : frames[x].type = "INDEX" /\ frames[x].parsed }
EntryAt(x, j) == frames[x].content.table[j]

EntryDescriptor(e) ==
    [code |-> e.code, ver |-> e.ver, size |-> e.size, pos |-> header.metadata_pos + e.off]

\* Entry j of index frame x yields a descriptor: its slot of the decoded table
\* holds one and the directory has a frame for it
Contributes(x, j) ==
    /\ j <= Len(frames[x].frames_index)
    /\ frames[x].frames_index[j] # <<>>
    /\ Descriptor(frames[x].frames_index[j][1]) = EntryDescriptor(EntryAt(x, j))
    /\ \E k \in RealFrames : Descriptor(frames[k]) = EntryDescriptor(EntryAt(x, j))

EmptySlot(x, j) == j <= Len(frames[x].frames_index) /\ frames[x].frames_index[j] = <<>>

C10_OnlyAllZeroIsSentinel ==
    AfterRead =>
        \A x \in UsedIndex : \A j \in 1..Len(frames[x].content.table) :
            IF EntryAt(x, j) = ZeroEntry THEN EmptySlot(x, j) ELSE Contributes(x, j)

----------------------------------------------------------------------------
(* C11 *)

\* The trailing header read at the j-th step of the backward scan of read
ScannedHeader(j) == HeaderBytesAt(file, last.trace[j])

\* Frame k of the directory is described by an entry of index frame x
FromTable(x, k) ==
    \E j \in 1..Len(frames[x].content.table) :
        /\ j <= Len(frames[x].frames_index)
        /\ frames[x].frames_index[j] # <<>>
        /\ Descriptor(frames[k]) = EntryDescriptor(EntryAt(x, j))

\* C11: once the backward scan of read has read a trailing header whose type
\* code is INDEX, it reads no further trailing header, whether read then
\* returns a model or fails; in the model returned, every real descriptor
\* positioned below the INDEX frame, and every real descriptor placed before
\* it in the directory, is described by an entry of the index table.
C11_ScanHaltsAtIndex ==
    last.op = "read" =>
        /\ \A j \in 1..Len(last.trace) :
              ScannedHeader(j).code = INDEX => j = Len(last.trace)
        /\ pc = "built" =>
              \A x \in UsedIndex :
                  /\ last.trace[Len(last.trace)] = HeaderedEnd(frames[x])
                  /\ \A k \in RealFrames :
                        (frames[k].pos < frames[x].pos \/ k < x) => FromTable(x, k)

\* A directory whose INDEX frame was reached after another frame was scanned
\* and whose table put two frames below it
C11_Witness ==
    /\ AfterRead
    /\ Len(last.trace) >= 2
    /\ \E x \in UsedIndex :
          Cardinality({ k \in RealFrames : frames[k].pos < frames[x].pos /\ FromTable(x, k) }) >= 2

----------------------------------------------------------------------------
(* C12 *)

\* The outcome r of Frame.parse on a lone frame: it raised and left the frame
\* undecoded, without index table
RaisedUndecoded(r) ==
    r.ret = "raise" /\ ~r.frames[1].parsed /\ r.frames[1].frames_index = <<>>

\* Decoding the frame whose trailing header the scan read at step j
ScannedFrameDecode(j) ==
    FrameParse(file.fsize - file.msize,
               << FrameRead(file, ReadBackward(file, last.trace[j])) >>, 1)

\* C12: when the backward scan of read meets an INDEX frame whose payload
\* length is not a multiple of 10, decoding that frame raises and leaves its
\* decoded flag false and its table empty, and read fails: it returns no
\* model, no footer and no frame.
C12_MalformedIndexFailsRead ==
    last.op = "read" =>
        \A j \in 1..Len(last.trace) :
            (ScannedHeader(j).code = INDEX /\ ScannedHeader(j).size % INDEX_ENTRY_SIZE # 0) =>
                /\ pc = "error"
                /\ last.ret = "raise"
                /\ frames = <<>>
                /\ header = NoHeader
                /\ RaisedUndecoded(ScannedFrameDecode(j))

\* A read that failed on an INDEX frame with a 23-byte payload
C12_Witness ==
    /\ last.op = "read"
    /\ pc = "error"
    /\ \E j \in 1..Len(last.trace) :
          ScannedHeader(j).code = INDEX /\ ScannedHeader(j).size = 23

----------------------------------------------------------------------------
(* C13, C14 *)

\* C13: for a source shorter than 72 bytes, or one whose last 32 bytes are not
\* the signature, InsvHeader.read and InsvMetadata.read return None without
\* raising, whatever the version field holds.
C13_NoTrailerIsAbsence ==
    (last.op = "read" /\ (file.fsize < HEADER_SIZE \/ ~file.sig)) =>
        /\ InsvHeaderRead(file).st = "none"
        /\ pc = "none"
        /\ last.ret = "none"
        /\ header = NoHeader
        /\ frames = <<>>

\* A full-size file with a foreign signature and version 4, read as absent
C13_Witness ==
    /\ last.op = "read"
    /\ pc = "none"
    /\ file.fsize >= HEADER_SIZE
    /\ ~file.sig
    /\ file.version # SUPPORTED_VERSION

\* The header a valid trailer gives
HeaderOf(r) == r.header
ValidFooter(h) == h.metadata_pos + h.metadata_size = file.fsize

\* C14: when the signature matches and the version is not 3, InsvHeader.read
\* raises, InsvMetadata.read raises with it, before any trailing header is
\* read, and leaves no model, footer or frame; when the version is 3 the
\* footer returned has metadata_pos + metadata_size = file_size, and so has
\* the footer of every model.
C14_VersionGate ==
    /\ (last.op = "read" /\ file.fsize >= HEADER_SIZE /\ file.sig) =>
          IF file.version # SUPPORTED_VERSION
          THEN /\ InsvHeaderRead(file).st = "raise"
               /\ pc = "error"
               /\ last.ret = "raise"
               /\ last.trace = <<>>
               /\ header = NoHeader
               /\ frames = <<>>
          ELSE /\ InsvHeaderRead(file).st = "ok"
               /\ ValidFooter(HeaderOf(InsvHeaderRead(file)))
               /\ HeaderOf(InsvHeaderRead(file)).version = SUPPORTED_VERSION
    /\ pc = "built" => (ValidFooter(header) /\ header.version = SUPPORTED_VERSION)

\* A file with frames, the signature and version 4, on which read raised
C14_Witness ==
    /\ last.op = "read"
    /\ pc = "error"
    /\ file.sig
    /\ file.version # SUPPORTED_VERSION
    /\ file.segs # <<>>

----------------------------------------------------------------------------
(* C15 *)

\* The width a GYRO frame resolves to in a bulk parse: the gyro length of the
\* first INFO frame, 0 without one
BulkGyroWidth ==
    IF FramesOfType("INFO") = {} THEN 0
    ELSE frames[FirstOfType("INFO")].content.glen

\* The record width of frame k, 0 for a frame without records
WidthOf(k) ==
    CASE frames[k].type = "GYRO" -> BulkGyroWidth
      [] frames[k].type = "GPS" -> GPS_SIZE
      [] frames[k].type = "EXPOSURE" -> EXPOSURE_SIZE
      [] frames[k].type = "TIMELAPSE" -> TIMELAPSE_SIZE
      [] frames[k].type = "POS" -> POS_SIZE
      [] OTHER -> 0

DecoderTypes == {"INDEX", "INFO", "GYRO", "GPS", "EXPOSURE", "TIMELAPSE", "POS"}
RecordTypes == {"GYRO", "GPS", "EXPOSURE", "TIMELAPSE", "POS"}

\* Frame k meets a soft condition: an unrecognized type code, a GYRO frame
\* whose width resolves to 0, a record frame shorter than one record
SoftFrame(k) ==
    \/ frames[k].type = "None"
    \/ frames[k].type = "GYRO" /\ BulkGyroWidth = 0
    \/ frames[k].type \in RecordTypes /\ frames[k].plen < WidthOf(k)

\* Frame k meets a fatal condition: an INFO frame of another version or
\* holding no message, an INDEX payload that is no whole number of entries
FatalFrame(k) ==
    \/ frames[k].type = "INFO"
       /\ (frames[k].ver # INFO_PROTOBUF_VERSION \/ frames[k].content.glen = NotAMessage)
    \/ frames[k].type = "INDEX" /\ frames[k].plen % INDEX_ENTRY_SIZE # 0

\* C15: in a directory with soft conditions and no fatal one, a
\* bulk parse returns without raising and every frame without soft condition
\* whose type is in the default set or the extra set and has a decoder ends
\* with its decoded flag true.
C15_SoftConditionsNeverAbort ==
    [][(/\ BulkDecodes
        /\ \E k \in 1..Len(frames) : SoftFrame(k)
        /\ \A k \in 1..Len(frames) : ~FatalFrame(k)) =>
           /\ last'.ret = "None"
           /\ \A k \in 1..Len(frames) :
                 (/\ ~SoftFrame(k)
                  /\ frames[k].type \in DecoderTypes
                  /\ frames[k].type \in DEFAULT_PARSED_TYPES \cup last'.types)
                     => frames'[k].parsed]_vars


\* An INFO frame in an encoding other than the supported one, not yet decoded
BadInfo(k) ==
    /\ frames[k].type = "INFO"
    /\ frames[k].ver # INFO_PROTOBUF_VERSION
    /\ ~frames[k].parsed

\* The decoded state of frame k is the same before and after the step
SameDecodedState(k) ==
    /\ frames'[k].parsed = frames[k].parsed
    /\ frames'[k].records = frames[k].records

\* C16: decoding an INFO frame whose version is not 1 raises and leaves its
\* decoded flag false; a bulk parse of a directory holding such a frame,
\* first INFO frame or later one, raises and leaves the decoded flag and the
\* record list of every frame as they were before the call.
C16_BadInfoFailsWhole ==
    [][/\ \A i \in 1..Len(frames) :
            (Decodes(i) /\ BadInfo(i)) =>
                (last'.ret = "raise" /\ ~frames'[i].parsed)
       /\ (BulkDecodes /\ \E k \in 1..Len(frames) : BadInfo(k)) =>
            /\ last'.ret = "raise"
            /\ \A k \in 1..Len(frames) : SameDecodedState(k)]_vars


\* Frame k is outside the types a bulk parse with the extra set E decodes
Unselected(k, E) == frames[k].type \notin DEFAULT_PARSED_TYPES \cup E

\* C17: a bulk parse with extra set E leaves every frame whose type is outside
\* default_set \cup E exactly as it was (decoded flag, payload, record list),
\* and an undecoded POS frame is decoded by a single decode, after a bulk
\* parse as at any other time.
C17_UnselectedFramesUntouched ==
    [][/\ BulkDecodes =>
            \A k \in 1..Len(frames) :
                Unselected(k, last'.types) => frames'[k] = frames[k]
       /\ \A i \in 1..Len(frames) :
            (Decodes(i) /\ frames[i].type = "POS" /\ ~frames[i].parsed) =>
                /\ last'.ret = "True"
                /\ frames'[i].parsed
                /\ Len(frames'[i].records) = frames[i].plen \div POS_SIZE]_vars

\* A bulk parse without POS in the extra set has decoded a frame and left a
\* POS frame undecoded
C17_Witness ==
    /\ last.op = "bulk"
    /\ "POS" \notin last.types
    /\ \E k \in 1..Len(frames) : frames[k].parsed
    /\ \E k \in 1..Len(frames) :
          frames[k].type = "POS" /\ ~frames[k].parsed /\ frames[k].plen >= POS_SIZE


\* What read fixed for a frame: its descriptor, type, class and payload bytes
Built(fr) ==
    [descriptor |-> Descriptor(fr), type |-> fr.type, cls |-> fr.cls,
     plen |-> fr.plen, content |-> fr.content]

\* C18: once the model is built, no single decode, bulk parse or lookup
\* changes the footer, the file, the number or order of the frames, any
\* descriptor or any payload; only decoded state changes.
C18_DirectoryFixedAfterBuild ==
    [][pc = "built" =>
          /\ header' = header
          /\ file' = file
          /\ Len(frames') = Len(frames)
          /\ \A k \in 1..Len(frames) : Built(frames'[k]) = Built(frames[k])]_vars

\* A lookup has returned a frame after decodes filled a record list
C18_Witness ==
    /\ last.op \in {"find_frame", "find_frame_by_code"}
    /\ last.ret = "Frame"
    /\ \E k \in 1..Len(frames) : frames[k].parsed /\ Len(frames[k].records) > 0
    /\ \E k \in 1..Len(frames) : ~frames[k].parsed


\* The step decodes record frame k: its decoded flag goes from false to true
NewlyDecoded(k) ==
    /\ pc = "built"
    /\ frames[k].type \in RecordTypes
    /\ ~frames[k].parsed
    /\ frames'[k].parsed

\* The record width decoding frame k used: for a GYRO frame the width it
\* resolved, for the other record frames the width of their type
DecodeWidth(k) == IF frames[k].type = "GYRO" THEN frames'[k].rsv ELSE WidthOf(k)

\* The record list is that of n records of w bytes cut from offset 0 onwards
WholeRecords(recs, n, w) ==
    /\ Len(recs) = n
    /\ \A j \in 1..Len(recs) : recs[j].off = (j - 1) * w /\ recs[j].width = w

\* C19: a successful decode of a record frame with a payload of L bytes
\* and record width w > 0 yields exactly floor(L / w) records, record i decoded
\* from bytes [i*w, (i+1)*w) of the payload, the tail of L mod w bytes being
\* dropped; the frame is marked decoded, with zero records when L < w.
C19_WholeRecordsOnly ==
    [][\A k \in 1..Len(frames) :
          NewlyDecoded(k) =>
              /\ DecodeWidth(k) > 0
              /\ WholeRecords(frames'[k].records,
                              frames[k].plen \div DecodeWidth(k), DecodeWidth(k))]_vars


\* The record variant the specification attaches to a gyro width
GyroVariant(w) ==
    CASE w = GYRO_V1_SIZE -> "GyroV1" [] w = GYRO_V2_SIZE -> "GyroV2" [] OTHER -> "GyroRaw"

\* The width GYRO frames resolve: the gyro length of the decoded first INFO frame
ResolvedWidth == frames[FirstOfType("INFO")].gds

\* The step is a single decode of the undecoded GYRO frame i, the width
\* being resolved to a positive value
GyroDecodeWithWidth(i) ==
    /\ Decodes(i)
    /\ frames[i].type = "GYRO"
    /\ ~frames[i].parsed
    /\ ~WidthUnresolved

\* Every record is of the variant of width w and spans w bytes: for the raw
\* variant an 8-byte timestamp and w - 8 opaque bytes
RecordsOfVariant(recs, w) ==
    \A j \in 1..Len(recs) : recs[j].kind = GyroVariant(w) /\ recs[j].width = w

\* C20: the variant of the records of a GYRO frame is a function of the
\* resolved width alone: width 56 gives variant A, width 20 variant B, any
\* other positive width the raw variant of an 8-byte timestamp and width - 8
\* opaque bytes; GYRO frames of one directory that differ only in the version
\* byte decode to the same records.
C20_VariantByWidthAlone ==
    [][/\ \A i \in 1..Len(frames) :
            GyroDecodeWithWidth(i) =>
                /\ last'.ret = "True"
                /\ frames'[i].parsed
                /\ RecordsOfVariant(frames'[i].records, ResolvedWidth)
       /\ \A i, k \in 1..Len(frames) :
            (/\ pc = "built"
             /\ frames'[i].type = "GYRO" /\ frames'[k].type = "GYRO"
             /\ frames'[i].parsed /\ frames'[k].parsed
             /\ frames'[i].plen = frames'[k].plen) =>
                frames'[i].records = frames'[k].records]_vars

-----------------------------------------------------------------------------
(* C21 *)

\* The step is a lookup by type / by the code c
LooksUpType == pc = "built" /\ last'.op = "find_frame"
LooksUpCode(c) ==
    pc = "built" /\ last'.op = "find_frame_by_code" /\ last'.types = {FromCode(c)}

\* The frames a lookup by the types ts / by the code c matches
TypeMatches(ts) == { k \in 1..Len(frames) : frames[k].type \in ts }
CodeMatches(c) == { k \in 1..Len(frames) : frames[k].code = c }

\* The lookup returned nothing when nothing matches, and otherwise the
\* matching frame that is first in the sequence and lowest in the file
FirstAndLowest(hit) ==
    IF hit = {} THEN last'.idx = 0 /\ last'.ret = "None"
    ELSE /\ last'.ret = "Frame"
         /\ last'.idx \in hit
         /\ \A j \in hit : last'.idx <= j /\ frames[last'.idx].pos <= frames[j].pos

\* C21: either lookup returns the first matching frame of the sequence, which
\* is the matching frame with the lowest file position, or nothing when none
\* matches; the lookup by code finds a frame whose code is outside the
\* enumeration, the lookup by a known type never returns one; neither lookup
\* changes any state.
C21_LookupReturnsLowestMatch ==
    [][/\ LooksUpType =>
            /\ FirstAndLowest(TypeMatches(last'.types))
            /\ last'.idx # 0 => frames[last'.idx].type # "None"
            /\ UNCHANGED <<file, pc, header, frames>>
       /\ \A c \in LookupCodes :
            LooksUpCode(c) =>
                /\ FirstAndLowest(CodeMatches(c))
                /\ UNCHANGED <<file, pc, header, frames>>]_vars

-----------------------------------------------------------------------------
(* PosRecord: records/pos.py. A second specification, over the same
   variables: file is one 44-byte record slice, frames the list of records
   parsed from it, last the call made last *)

\* 32-bit floats as struct.unpack yields them: a number (in tenths), a zero
\* with its sign bit set, an infinity or a NaN
Num(v) == [cls |-> "num", v |-> v]
NegZero == [cls |-> "negzero", v |-> 0]
PosInf == [cls |-> "inf", v |-> 1]
NegInf == [cls |-> "inf", v |-> -1]
NaN == [cls |-> "nan", v |-> 0]

\* x > 0 on floats: false for NaN and for either zero
GreaterThanZero(x) == x.cls \in {"num", "inf"} /\ x.v > 0

\* x >= 0 on floats
AtLeastZero(x) == x.cls = "negzero" \/ (x.cls \in {"num", "inf"} /\ x.v >= 0)

\* math.sqrt(n), kept as the number it is the root of
SqrtOf(n) == [sqrt |-> n]

\* PosRecord.parse: a 4-byte timestamp, then ten floats
PosRecordParse(data) ==
    [timestamp |-> data.timestamp,
     x_pos |-> data.floats[1], y_pos |-> data.floats[2], z_pos |-> data.floats[3],
     float3 |-> data.floats[4], float4 |-> data.floats[5], float5 |-> data.floats[6],
     velocity_h |-> data.floats[7], velocity_v |-> data.floats[8],
     float8 |-> data.floats[9], agl |-> data.floats[10]]

\* PosRecord.speed
PosSpeed(r) == SqrtOf(r.velocity_h.v * r.velocity_h.v + r.velocity_v.v * r.velocity_v.v)

\* A faulty AglValid: a reading of zero counts as valid
AglValid_ZeroIncluded(r) == AtLeastZero(r.agl)

\* PosRecord.agl_valid
AglValid(r) == GreaterThanZero(r.agl)

\* The keys to_dict always sets
PosBaseKeys == {"timestamp", "xPos", "yPos", "zPos", "velocityH", "velocityV", "speed"}

PosBaseValue(r, key) ==
    CASE key = "timestamp" -> r.timestamp
      [] key = "xPos" -> r.x_pos
      [] key = "yPos" -> r.y_pos
      [] key = "zPos" -> r.z_pos
      [] key = "velocityH" -> r.velocity_h
      [] key = "velocityV" -> r.velocity_v
      [] key = "speed" -> PosSpeed(r)

\* PosRecord.to_dict
PosToDict(r) ==
    IF AglValid(r)
    THEN [key \in PosBaseKeys \cup {"agl"} |->
             IF key = "agl" THEN r.agl ELSE PosBaseValue(r, key)]
    ELSE [key \in PosBaseKeys |-> PosBaseValue(r, key)]

\* The record slices explored: AGL readings below, at and above zero, the
\* N/A reading -1.0, and the floats that are no numbers
AglValues == {Num(-25), Num(-10), Num(0), NegZero, Num(1), Num(120), PosInf, NegInf, NaN}
Velocities == {Num(0), Num(3), Num(-4)}
Timestamps == {0, 1000}

PosBytes(t, vh, vv, agl) ==
    [timestamp |-> t,
     floats |-> << Num(0), Num(0), Num(0), Num(0), Num(0), Num(0), vh, vv, Num(0), agl >>]

PosInit ==
    /\ file \in { PosBytes(t, vh, vv, agl) :
                    t \in Timestamps, vh \in Velocities, vv \in Velocities, agl \in AglValues }
    /\ pc = "bytes"
    /\ header = NoHeader
    /\ frames = <<>>
    /\ last = Call("none", 0, {}, "None", <<>>)

\* record = PosRecord.parse(data, 0)
PosParse ==
    /\ pc = "bytes"
    /\ pc' = "record"
    /\ frames' = << PosRecordParse(file) >>
    /\ last' = Call("parse", 1, {}, "PosRecord", <<>>)
    /\ UNCHANGED <<file, header>>

\* record.to_dict()
PosDump ==
    /\ pc \in {"record", "dict"}
    /\ pc' = "dict"
    /\ last' = Call("to_dict", 1, {}, "dict", << PosToDict(frames[1]) >>)
    /\ UNCHANGED <<file, header, frames>>

PosNext == PosParse \/ PosDump

PosSpec == PosInit /\ [][PosNext]_vars

-----------------------------------------------------------------------------
(* C22 *)

\* The external representation to_dict returned last, and the record it is of
Dumped == pc = "dict" /\ last.op = "to_dict"
External == last.trace[1]
AglRead == file.floats[10]

\* The AGL reading is a number (or an infinity) above zero
AglAboveZero == AglRead.cls \in {"num", "inf"} /\ AglRead.v > 0

\* C22: the external representation of a drone-position record has the AGL
\* field, holding the reading, exactly when the reading is above zero; a
\* reading of zero or below, 0 and -1.0 included, is left out.
C22_AglOnlyWhenAboveZero ==
    Dumped =>
        /\ ("agl" \in DOMAIN External) <=> AglAboveZero
        /\ "agl" \in DOMAIN External => External["agl"] = AglRead
        /\ PosBaseKeys \subseteq DOMAIN External

\* A record with the N/A reading -1.0 has been dumped without the AGL field
C22_Witness ==
    /\ Dumped
    /\ AglRead = Num(-10)
    /\ "agl" \notin DOMAIN External

-----------------------------------------------------------------------------
(* C23 *)

\* metadata_pos as the trailer of the file gives it, and the bytes between it
\* and the trailer: file_size - 72 - metadata_pos
FileMetadataPos == file.fsize - file.msize
ScanSpan == file.fsize - HEADER_SIZE - FileMetadataPos

\* ceil(n / d) for d > 0
CeilDiv(n, d) == (n + d - 1) \div d

\* C23: the backward scan of read ends for every file. The first header is
\* read at file_size - 72, every header is read at a position above
\* metadata_pos and at least 6 bytes below the one before, so the scan reads
\* at most ceil((file_size - 72 - metadata_pos) / 6) headers, and none when
\* metadata_pos is not below file_size - 72.
C23_ScanBounded ==
    last.op = "read" =>
        /\ \A j \in 1..Len(last.trace) : last.trace[j] > FileMetadataPos
        /\ last.trace # <<>> => last.trace[1] = file.fsize - HEADER_SIZE
        /\ \A j \in 1..(Len(last.trace) - 1) :
              last.trace[j] - last.trace[j + 1] >= FRAME_HEADER_SIZE
        /\ IF ScanSpan > 0
           THEN Len(last.trace) <= CeilDiv(ScanSpan, FRAME_HEADER_SIZE)
           ELSE last.trace = <<>>

\* A scan that read as many headers as the bound allows, more than one
C23_Witness ==
    /\ last.op = "read"
    /\ Len(last.trace) > 1
    /\ Len(last.trace) = CeilDiv(ScanSpan, FRAME_HEADER_SIZE)

-----------------------------------------------------------------------------
(* C24 *)

\* The frames of the types ts, in directory order
SelectedInOrder(ts) ==
    SelectSeq([k \in 1..Len(frames) |-> k], LAMBDA k : frames[k].type \in ts)

\* The same with the first INFO frame moved to the front
InfoThenOthers(ts) ==
    IF FramesOfType("INFO") = {} THEN SelectedInOrder(ts)
    ELSE << FirstOfType("INFO") >>
         \o SelectSeq(SelectedInOrder(ts), LAMBDA k : k # FirstOfType("INFO"))

IsPrefix(p, q) == Len(p) <= Len(q) /\ SubSeq(q, 1, Len(p)) = p

\* Frame k has a known type for which there is no decoder
HasNoDecoder(k) == frames[k].type \notin DecoderTypes \cup {"None", "RAW"}

\* Decoding a frame without decoder returns failure and leaves it undecoded
NoDecoderFails ==
    /\ \A i \in 1..Len(frames) :
          (Decodes(i) /\ HasNoDecoder(i)) => last'.ret = "False"
    /\ pc = "built" => \A k \in 1..Len(frames) : HasNoDecoder(k) => ~frames'[k].parsed

\* C24 as stated: a bulk parse attempts a decode on every frame whose type is
\* in default_set \cup extra_set, in ascending directory order; a requested
\* frame of a known type without decoder is attempted, its decode returns
\* failure without raising and it stays undecoded; a requested POS frame ends
\* decoded.
C24_EverySelectedFrameInOrder ==
    [][/\ BulkDecodes =>
            /\ last'.trace = SelectedInOrder(DEFAULT_PARSED_TYPES \cup last'.types)
            /\ \A k \in 1..Len(frames) :
                  (frames[k].type = "POS" /\ "POS" \in last'.types) => frames'[k].parsed
       /\ NoDecoderFails]_vars

\* C24 amended: a bulk parse attempts the first INFO frame first and then the
\* other frames whose type is in default_set \cup extra_set, in ascending
\* directory order; it attempts all of them when it returns, and stops at the
\* frame whose decode raises otherwise. A requested frame of a known type
\* without decoder is attempted, its decode returns failure without raising
\* and it stays undecoded; a requested POS frame ends decoded whenever the
\* bulk parse returns.
C24_InfoFirstThenSelectedInOrder ==
    [][/\ BulkDecodes =>
            /\ last'.ret = "None" =>
                  /\ last'.trace = InfoThenOthers(DEFAULT_PARSED_TYPES \cup last'.types)
                  /\ \A k \in 1..Len(frames) :
                        (frames[k].type = "POS" /\ "POS" \in last'.types) =>
                            frames'[k].parsed
            /\ last'.ret = "raise" =>
                  /\ last'.trace # <<>>
                  /\ IsPrefix(last'.trace,
                              InfoThenOthers(DEFAULT_PARSED_TYPES \cup last'.types))
                  /\ ~frames'[last'.trace[Len(last'.trace)]].parsed
       /\ NoDecoderFails]_vars

\* A bulk parse asked for MAGNETIC and POS has returned: it attempted the
\* MAGNETIC frame, which is undecoded, and decoded the POS frame
C24_Witness ==
    /\ last.op = "bulk"
    /\ last.ret = "None"
    /\ \E j \in 1..Len(last.trace) :
          frames[last.trace[j]].type = "MAGNETIC" /\ ~frames[last.trace[j]].parsed
    /\ \E k \in 1..Len(frames) : frames[k].type = "POS" /\ frames[k].parsed

====
